---- MODULE Spec2Model ----
(***************************************************************************)
(* Model of src/main.rs of the lru program: one run of main() as a state   *)
(* machine.  The program probes the available space, walks the directory   *)
(* tree keeping a max-heap (by access time) of the least recently accessed *)
(* files that cover the deficit, probes again, prunes the heap to the new  *)
(* deficit and drains it, deleting or (dry run) reporting every member.    *)
(*                                                                         *)
(* u64 / i64 arithmetic is kept, scaled to Bits-bit words.  The walk, the  *)
(* two probes and the result of every remove_file are inputs.  The heap is *)
(* std::collections::BinaryHeap, modelled as its backing vector with the   *)
(* library's sift_up / sift_down_to_bottom, ordered by FileInfo::cmp.      *)
(***************************************************************************)
EXTENDS Integers, Sequences, FiniteSets

\* ---- bounds of the model ----
Bits == 6          \* width of the modelled u64 / i64 words
MaxFiles == 3      \* directory entries yielded by one walk
MaxSize == 2       \* file sizes are 0..MaxSize
MaxTime == 3       \* access times are 1..MaxTime, "now" is MaxTime + 1
MaxTarget == 3     \* --target-available-space is 0..MaxTarget

U64Max == 2^Bits - 1
I64Max == 2^(Bits - 1) - 1
I64Min == 0 - 2^(Bits - 1)
Now == MaxTime + 1

Sizes == 0..MaxSize
Times == 1..MaxTime
Targets == 0..MaxTarget
\* values a probe may return: small ones, and two beyond i64::MAX
Avails == (0..MaxTarget) \cup {I64Max + 1, U64Max}

VARIABLES
    pc,                       \* position in main()
    dry_run, verbose,         \* Args switches
    target_available_space,   \* Args option -t
    older_than,               \* Args option -o (minutes)
    current_available_space,  \* first probe
    max_n_bytes_to_delete,    \* deficit used by the scan
    aggregate_heap_file_size, \* running total of the heap's sizes
    files_to_delete,          \* the BinaryHeap's backing vector
    n_bytes_to_delete,        \* deficit recomputed after the scan (i64)
    n_bytes_deleted,          \* byte total reported at the end
    walked,                   \* entries the walk has yielded so far, in order
    reprobed,                 \* <<value>> of the second probe once taken
    scanned,                  \* the heap's members when the walk ended
    final,                    \* the heap's members when the pruning ended
    attempts,                 \* paths handed to remove_file, in order
    removed,                  \* paths remove_file has removed
    printed,                  \* paths printed by the drain, in order
    replay                    \* <<first run>> while a second dry run replays it

vars == <<pc, dry_run, verbose, target_available_space, older_than,
          current_available_space, max_n_bytes_to_delete,
          aggregate_heap_file_size, files_to_delete, n_bytes_to_delete,
          n_bytes_deleted, walked, reprobed, scanned, final, attempts,
          removed, printed, replay>>

\* ---- machine arithmetic ----
\* u64 subtraction and addition as the release build computes them
USub(a, b) == (a - b + 2^Bits) % (2^Bits)
UAdd(a, b) == (a + b) % (2^Bits)
\* `x as i64` of a u64
AsI64(u) == IF u > I64Max THEN u - 2^Bits ELSE u
\* `x as u64` of an i64
AsU64(i) == IF i < 0 THEN i + 2^Bits ELSE i
\* an i64 result wrapped into range
WrapI64(i) == AsI64((i + 2^Bits) % (2^Bits))

\* ---- FileInfo and its ordering ----
FileInfo(p, s, a) == [path |-> p, size |-> s, accessed |-> a]
\* the ordering reversed (self and other swapped in cmp)
FileGe(a, b) == a.accessed >= b.accessed
\* a <= b under impl PartialOrd for FileInfo: access time only
FileLe(a, b) == a.accessed <= b.accessed

\* ---- BinaryHeap<FileInfo> (positions are 0-based as in the library) ----
Swap(d, i, j) == [d EXCEPT ![i + 1] = d[j + 1], ![j + 1] = d[i + 1]]

RECURSIVE sift_up(_, _)
sift_up(d, pos) ==
    IF pos = 0 THEN d
    ELSE LET parent == (pos - 1) \div 2 IN
         IF FileLe(d[pos + 1], d[parent + 1]) THEN d
         ELSE sift_up(Swap(d, pos, parent), parent)

RECURSIVE sift_down_to_bottom(_, _)
sift_down_to_bottom(d, pos) ==
    LET end == Len(d)
        child == 2 * pos + 1 IN
    IF child <= end - 2
    THEN LET c == IF FileLe(d[child + 1], d[child + 2]) THEN child + 1 ELSE child IN
         sift_down_to_bottom(Swap(d, pos, c), c)
    ELSE IF child = end - 1
         THEN sift_up(Swap(d, pos, child), child)
         ELSE sift_up(d, pos)

HeapPush(d, f) == sift_up(Append(d, f), Len(d))
HeapPeek(d) == d[1]
\* pop that moves the last element to the root without sifting it down
HeapPopNoSift(d) ==
    IF Len(d) = 1 THEN <<>>
    ELSE [SubSeq(d, 1, Len(d) - 1) EXCEPT ![1] = d[Len(d)]]
HeapPop(d) ==
    IF Len(d) = 1 THEN <<>>
    ELSE sift_down_to_bottom([SubSeq(d, 1, Len(d) - 1) EXCEPT ![1] = d[Len(d)]], 0)

Members(d) == {d[i] : i \in 1..Len(d)}
Paths(S) == {f.path : f \in S}
RECURSIVE SumSizes(_)
SumSizes(S) ==
    IF S = {} THEN 0
    ELSE LET f == CHOOSE g \in S : TRUE IN f.size + SumSizes(S \ {f})

\* ---- the tests of main() ----
older_than_time == Now - older_than
\* the age test with <= for <
EligibleInclusive(accessed) == accessed <= Now - older_than
\* the age test inverted
EligibleNewer(accessed) == accessed > Now - older_than
\* line 75, first conjunct
Eligible(accessed) == accessed < older_than_time
\* line 75, second conjunct; peek().unwrap() is evaluated only when the
\* total has reached the deficit
NeedsPeek == ~(aggregate_heap_file_size < max_n_bytes_to_delete)
\* admission of every eligible file, leaving the rest to the trimming loop
AdmitsAll(accessed) == Eligible(accessed)
Admits(accessed) ==
    /\ Eligible(accessed)
    /\ \/ aggregate_heap_file_size < max_n_bytes_to_delete
       \/ accessed <= HeapPeek(files_to_delete).accessed
\* the trimming test against the target instead of the deficit
TrimTestTarget == USub(aggregate_heap_file_size, HeapPeek(files_to_delete).size)
                     > target_available_space
\* the trimming test on the total alone, without the top's size
TrimTestTotal == aggregate_heap_file_size > max_n_bytes_to_delete
\* line 83
TrimTest == USub(aggregate_heap_file_size, HeapPeek(files_to_delete).size)
                > max_n_bytes_to_delete
\* the pruning test on the total alone, without the top's size
PruneTestTotal == aggregate_heap_file_size > AsU64(n_bytes_to_delete)
\* the pruning test with >= for >
PruneTestInclusive == USub(aggregate_heap_file_size, HeapPeek(files_to_delete).size)
                         >= AsU64(n_bytes_to_delete)
\* line 104
PruneTest == USub(aggregate_heap_file_size, HeapPeek(files_to_delete).size)
                > AsU64(n_bytes_to_delete)

\* ---- entries of the walk ----
Entries ==
    {[is_file |-> TRUE, size |-> s, accessed |-> a] : s \in Sizes, a \in Times}
    \cup {[is_file |-> FALSE, size |-> 0, accessed |-> 1]}
Replaying == replay # <<>>
\* the entry the walk yields next: any, or the recorded one in a replayed run
NextEntries ==
    IF Replaying
    THEN IF Len(walked) < Len(replay[1].walked)
         THEN {replay[1].walked[Len(walked) + 1]} ELSE {}
    ELSE IF Len(walked) < MaxFiles THEN Entries ELSE {}

Init ==
    /\ pc = "start"
    /\ dry_run \in BOOLEAN
    /\ verbose \in BOOLEAN
    /\ target_available_space \in Targets
    /\ older_than \in 0..MaxTime
    /\ current_available_space = 0
    /\ max_n_bytes_to_delete = 0
    /\ aggregate_heap_file_size = 0
    /\ files_to_delete = <<>>
    /\ n_bytes_to_delete = 0
    /\ n_bytes_deleted = 0
    /\ walked = <<>>
    /\ reprobed = <<>>
    /\ scanned = {}
    /\ final = {}
    /\ attempts = <<>>
    /\ removed = {}
    /\ printed = <<>>
    /\ replay = <<>>

\* the first probe starting the scan also when available = target
Probe1Inclusive ==
    /\ pc = "start"
    /\ \E avail \in Avails :
        /\ Replaying => avail = replay[1].probe1
        /\ current_available_space' = avail
        /\ IF avail <= target_available_space
           THEN /\ max_n_bytes_to_delete' = USub(target_available_space, avail)
                /\ pc' = "walk"
           ELSE /\ max_n_bytes_to_delete' = max_n_bytes_to_delete
                /\ pc' = "done"
    /\ UNCHANGED <<dry_run, verbose, target_available_space, older_than,
                   aggregate_heap_file_size, files_to_delete, n_bytes_to_delete,
                   n_bytes_deleted, walked, reprobed, scanned, final, attempts,
                   removed, printed, replay>>

\* lines 60-67: the first probe and the test that starts the scan
Probe1 ==
    /\ pc = "start"
    /\ \E avail \in Avails :
        /\ Replaying => avail = replay[1].probe1
        /\ current_available_space' = avail
        /\ IF avail < target_available_space
           THEN /\ max_n_bytes_to_delete' = USub(target_available_space, avail)
                /\ pc' = "walk"
           ELSE /\ max_n_bytes_to_delete' = max_n_bytes_to_delete
                /\ pc' = "done"
    /\ UNCHANGED <<dry_run, verbose, target_available_space, older_than,
                   aggregate_heap_file_size, files_to_delete, n_bytes_to_delete,
                   n_bytes_deleted, walked, reprobed, scanned, final, attempts,
                   removed, printed, replay>>

\* a probe that can also fail inside the drain loop
ProbeFailsLate ==
    /\ pc \in {"start", "probe2", "drain"}
    /\ ~Replaying
    /\ pc' = "panicked"
    /\ UNCHANGED <<dry_run, verbose, target_available_space, older_than,
                   current_available_space, max_n_bytes_to_delete,
                   aggregate_heap_file_size, files_to_delete, n_bytes_to_delete,
                   n_bytes_deleted, walked, reprobed, scanned, final, attempts,
                   removed, printed, replay>>

\* lines 60 and 98: fs2::available_space(..).unwrap() on an error
ProbeFails ==
    /\ pc \in {"start", "probe2"}
    /\ ~Replaying
    /\ pc' = "panicked"
    /\ UNCHANGED <<dry_run, verbose, target_available_space, older_than,
                   current_available_space, max_n_bytes_to_delete,
                   aggregate_heap_file_size, files_to_delete, n_bytes_to_delete,
                   n_bytes_deleted, walked, reprobed, scanned, final, attempts,
                   removed, printed, replay>>

\* lines 69-82 and 88-94: one entry of the walk, admitted or skipped
ScanEntry ==
    /\ pc = "walk"
    /\ \E e \in NextEntries :
        /\ walked' = Append(walked, e)
        /\ IF ~e.is_file
           THEN UNCHANGED <<pc, aggregate_heap_file_size, files_to_delete>>
           ELSE IF Eligible(e.accessed) /\ NeedsPeek /\ files_to_delete = <<>>
           THEN /\ pc' = "panicked"
                /\ UNCHANGED <<aggregate_heap_file_size, files_to_delete>>
           ELSE IF Admits(e.accessed)
           THEN LET file == FileInfo(Len(walked) + 1, e.size, e.accessed) IN
                /\ aggregate_heap_file_size' = UAdd(aggregate_heap_file_size, file.size)
                /\ files_to_delete' = HeapPush(files_to_delete, file)
                /\ pc' = "trim"
           ELSE UNCHANGED <<pc, aggregate_heap_file_size, files_to_delete>>
    /\ UNCHANGED <<dry_run, verbose, target_available_space, older_than,
                   current_available_space, max_n_bytes_to_delete,
                   n_bytes_to_delete, n_bytes_deleted, reprobed, scanned, final,
                   attempts, removed, printed, replay>>

\* a trimming pop that leaves the running total as it was
TrimPopKeepsTotal ==
    /\ pc = "trim"
    /\ files_to_delete # <<>>
    /\ TrimTest
    /\ files_to_delete' = HeapPop(files_to_delete)
    /\ UNCHANGED <<pc, dry_run, verbose, target_available_space, older_than,
                   current_available_space, max_n_bytes_to_delete,
                   aggregate_heap_file_size, n_bytes_to_delete, n_bytes_deleted,
                   walked, reprobed, scanned, final, attempts, removed, printed,
                   replay>>

\* lines 83-87: one iteration of the trimming loop that pops
TrimPop ==
    /\ pc = "trim"
    /\ files_to_delete # <<>>
    /\ TrimTest
    /\ aggregate_heap_file_size' =
           USub(aggregate_heap_file_size, HeapPeek(files_to_delete).size)
    /\ files_to_delete' = HeapPop(files_to_delete)
    /\ UNCHANGED <<pc, dry_run, verbose, target_available_space, older_than,
                   current_available_space, max_n_bytes_to_delete,
                   n_bytes_to_delete, n_bytes_deleted, walked, reprobed, scanned,
                   final, attempts, removed, printed, replay>>

\* line 83: the trimming loop's test fails (or peek().unwrap() finds no member)
TrimExit ==
    /\ pc = "trim"
    /\ IF files_to_delete = <<>> THEN pc' = "panicked"
       ELSE /\ ~TrimTest
            /\ pc' = "walk"
    /\ UNCHANGED <<dry_run, verbose, target_available_space, older_than,
                   current_available_space, max_n_bytes_to_delete,
                   aggregate_heap_file_size, files_to_delete, n_bytes_to_delete,
                   n_bytes_deleted, walked, reprobed, scanned, final, attempts,
                   removed, printed, replay>>

\* line 95: the walk is exhausted
WalkEnd ==
    /\ pc = "walk"
    /\ Replaying => Len(walked) = Len(replay[1].walked)
    /\ pc' = "probe2"
    /\ scanned' = Members(files_to_delete)
    /\ UNCHANGED <<dry_run, verbose, target_available_space, older_than,
                   current_available_space, max_n_bytes_to_delete,
                   aggregate_heap_file_size, files_to_delete, n_bytes_to_delete,
                   n_bytes_deleted, walked, reprobed, final, attempts, removed,
                   printed, replay>>

\* lines 97-99: the second probe, the recomputed deficit and its test.  The
\* i64 subtraction that overflows panics (debug build) or wraps (release).
Probe2 ==
    /\ pc = "probe2"
    /\ \E avail \in Avails :
        LET diff == AsI64(target_available_space) - AsI64(avail)
            overflow == diff > I64Max \/ diff < I64Min
            n == WrapI64(diff) IN
        /\ Replaying => replay[1].probe2 = <<avail>>
        /\ reprobed' = <<avail>>
        /\ \/ /\ overflow
              /\ pc' = "panicked"
              /\ UNCHANGED <<n_bytes_to_delete, files_to_delete,
                             aggregate_heap_file_size, final>>
           \/ /\ n_bytes_to_delete' = n
              /\ IF n > 0
                 THEN /\ pc' = "prune"
                      /\ UNCHANGED <<files_to_delete, aggregate_heap_file_size, final>>
                 ELSE \* the heap goes out of scope undrained
                      /\ pc' = "done"
                      /\ files_to_delete' = <<>>
                      /\ aggregate_heap_file_size' = 0
                      /\ final' = {}
    /\ UNCHANGED <<dry_run, verbose, target_available_space, older_than,
                   current_available_space, max_n_bytes_to_delete,
                   n_bytes_deleted, walked, scanned, attempts, removed, printed,
                   replay>>

\* lines 100-106: one iteration of the pruning loop that pops
PrunePop ==
    /\ pc = "prune"
    /\ files_to_delete # <<>>
    /\ PruneTest
    /\ aggregate_heap_file_size' =
           USub(aggregate_heap_file_size, HeapPeek(files_to_delete).size)
    /\ files_to_delete' = HeapPop(files_to_delete)
    /\ UNCHANGED <<pc, dry_run, verbose, target_available_space, older_than,
                   current_available_space, max_n_bytes_to_delete,
                   n_bytes_to_delete, n_bytes_deleted, walked, reprobed, scanned,
                   final, attempts, removed, printed, replay>>

\* the pruning loop's end, refilling the heap when the deficit has grown
\* beyond what the scan gathered
PruneExitRefill ==
    /\ pc = "prune"
    /\ IF files_to_delete = <<>> THEN TRUE ELSE ~PruneTest
    /\ pc' = "drain"
    /\ LET left == {FileInfo(i, walked[i].size, walked[i].accessed) :
                       i \in {j \in 1..Len(walked) :
                                walked[j].is_file /\ Eligible(walked[j].accessed)}}
                    \ Members(files_to_delete) IN
       IF aggregate_heap_file_size < AsU64(n_bytes_to_delete) /\ left # {}
       THEN LET f == CHOOSE g \in left : TRUE IN
            /\ files_to_delete' = HeapPush(files_to_delete, f)
            /\ aggregate_heap_file_size' = UAdd(aggregate_heap_file_size, f.size)
            /\ final' = Members(files_to_delete) \cup {f}
       ELSE /\ final' = Members(files_to_delete)
            /\ UNCHANGED <<files_to_delete, aggregate_heap_file_size>>
    /\ UNCHANGED <<dry_run, verbose, target_available_space, older_than,
                   current_available_space, max_n_bytes_to_delete,
                   n_bytes_to_delete, n_bytes_deleted, walked, reprobed, scanned,
                   attempts, removed, printed, replay>>

\* lines 100 and 107-109: the pruning loop ends (peek() is None, or break)
PruneExit ==
    /\ pc = "prune"
    /\ IF files_to_delete = <<>> THEN TRUE ELSE ~PruneTest
    /\ pc' = "drain"
    /\ final' = Members(files_to_delete)
    /\ UNCHANGED <<dry_run, verbose, target_available_space, older_than,
                   current_available_space, max_n_bytes_to_delete,
                   aggregate_heap_file_size, files_to_delete, n_bytes_to_delete,
                   n_bytes_deleted, walked, reprobed, scanned, attempts, removed,
                   printed, replay>>

\* the drain removing the file in dry-run mode too
DrainPopAlwaysRemoves ==
    /\ pc = "drain"
    /\ files_to_delete # <<>>
    /\ LET file == HeapPeek(files_to_delete) IN
       /\ files_to_delete' = HeapPop(files_to_delete)
       /\ \E is_ok \in BOOLEAN :
            /\ attempts' = Append(attempts, file.path)
            /\ removed' = IF is_ok THEN removed \cup {file.path} ELSE removed
            /\ IF dry_run \/ (is_ok /\ verbose)
               THEN /\ n_bytes_deleted' = UAdd(n_bytes_deleted, file.size)
                    /\ printed' = Append(printed, file.path)
               ELSE UNCHANGED <<n_bytes_deleted, printed>>
    /\ UNCHANGED <<pc, dry_run, verbose, target_available_space, older_than,
                   current_available_space, max_n_bytes_to_delete,
                   aggregate_heap_file_size, n_bytes_to_delete, walked, reprobed,
                   scanned, final, replay>>

\* the drain stopping at the first failed deletion
DrainPopStopsOnError ==
    /\ pc = "drain"
    /\ files_to_delete # <<>>
    /\ LET file == HeapPeek(files_to_delete) IN
       /\ files_to_delete' = HeapPop(files_to_delete)
       /\ IF dry_run
          THEN /\ n_bytes_deleted' = UAdd(n_bytes_deleted, file.size)
               /\ printed' = Append(printed, file.path)
               /\ UNCHANGED <<attempts, removed, pc>>
          ELSE \E is_ok \in BOOLEAN :
               /\ attempts' = Append(attempts, file.path)
               /\ removed' = IF is_ok THEN removed \cup {file.path} ELSE removed
               /\ pc' = IF is_ok THEN pc ELSE "done"
               /\ IF is_ok /\ verbose
                  THEN /\ n_bytes_deleted' = UAdd(n_bytes_deleted, file.size)
                       /\ printed' = Append(printed, file.path)
                  ELSE UNCHANGED <<n_bytes_deleted, printed>>
    /\ UNCHANGED <<dry_run, verbose, target_available_space, older_than,
                   current_available_space, max_n_bytes_to_delete,
                   aggregate_heap_file_size, n_bytes_to_delete, walked, reprobed,
                   scanned, final, replay>>

\* lines 111-119: one iteration of the drain
DrainPop ==
    /\ pc = "drain"
    /\ files_to_delete # <<>>
    /\ LET file == HeapPeek(files_to_delete) IN
       /\ files_to_delete' = HeapPop(files_to_delete)
       /\ IF dry_run
          THEN /\ n_bytes_deleted' = UAdd(n_bytes_deleted, file.size)
               /\ printed' = Append(printed, file.path)
               /\ UNCHANGED <<attempts, removed>>
          ELSE \E is_ok \in BOOLEAN :
               /\ attempts' = Append(attempts, file.path)
               /\ removed' = IF is_ok THEN removed \cup {file.path} ELSE removed
               /\ IF is_ok /\ verbose
                  THEN /\ n_bytes_deleted' = UAdd(n_bytes_deleted, file.size)
                       /\ printed' = Append(printed, file.path)
                  ELSE UNCHANGED <<n_bytes_deleted, printed>>
    /\ UNCHANGED <<pc, dry_run, verbose, target_available_space, older_than,
                   current_available_space, max_n_bytes_to_delete,
                   aggregate_heap_file_size, n_bytes_to_delete, walked, reprobed,
                   scanned, final, replay>>

\* line 111: pop() is None, the drain ends
DrainExit ==
    /\ pc = "drain"
    /\ files_to_delete = <<>>
    /\ pc' = "done"
    /\ UNCHANGED <<dry_run, verbose, target_available_space, older_than,
                   current_available_space, max_n_bytes_to_delete,
                   aggregate_heap_file_size, files_to_delete, n_bytes_to_delete,
                   n_bytes_deleted, walked, reprobed, scanned, final, attempts,
                   removed, printed, replay>>

\* the program is run a second time in dry-run mode with nothing changed in
\* between: same arguments, same walk, same probes
RunAgain ==
    /\ pc = "done"
    /\ dry_run
    /\ ~Replaying
    /\ replay' = <<[walked |-> walked, probe1 |-> current_available_space,
                    probe2 |-> reprobed, printed |-> printed,
                    n_bytes_deleted |-> n_bytes_deleted, removed |-> removed]>>
    /\ pc' = "start"
    /\ current_available_space' = 0
    /\ max_n_bytes_to_delete' = 0
    /\ aggregate_heap_file_size' = 0
    /\ files_to_delete' = <<>>
    /\ n_bytes_to_delete' = 0
    /\ n_bytes_deleted' = 0
    /\ walked' = <<>>
    /\ reprobed' = <<>>
    /\ scanned' = {}
    /\ final' = {}
    /\ attempts' = <<>>
    /\ printed' = <<>>
    /\ UNCHANGED <<dry_run, verbose, target_available_space, older_than, removed>>

Next ==
    \/ Probe1
    \/ ProbeFails
    \/ ScanEntry
    \/ TrimPop
    \/ TrimExit
    \/ WalkEnd
    \/ Probe2
    \/ PrunePop
    \/ PruneExit
    \/ DrainPop
    \/ DrainExit

Spec == Init /\ [][Next]_vars

NextTwice == Next \/ RunAgain
SpecTwice == Init /\ [][NextTwice]_vars

\* ---- what the claims speak about ----
Range(s) == {s[i] : i \in 1..Len(s)}
\* the files of the walk that pass the age test, as the FileInfo the scan builds
EligibleWalked ==
    {FileInfo(i, walked[i].size, walked[i].accessed) :
        i \in {j \in 1..Len(walked) :
                 walked[j].is_file /\ walked[j].accessed < Now - older_than}}
Heap == Members(files_to_delete)
\* paths the drain has deleted, tried to delete or reported
Touched == Range(attempts) \cup Range(printed) \cup removed
\* S is an oldest-first prefix of E: nothing left out is older than a member
OldestPrefix(S, E) ==
    /\ S \subseteq E
    /\ \A m \in S : \A e \in E \ S : e.accessed >= m.accessed
\* S is an oldest-first prefix of E of the smallest total size that is >= r
MinimalOldestCover(S, E, r) ==
    /\ OldestPrefix(S, E)
    /\ SumSizes(S) >= r
    /\ \A T \in SUBSET E :
          OldestPrefix(T, E) /\ SumSizes(T) >= r => SumSizes(S) <= SumSizes(T)

\* C1: every member of the candidate set, and every file deleted, attempted
\* or reported, was last accessed strictly before the age floor; when no
\* walked file is that old the set is empty and nothing is touched.
C1_AgeFloorAbsolute ==
    /\ \A f \in Heap : f.accessed < Now - older_than
    /\ \A p \in Touched :
          /\ p \in 1..Len(walked)
          /\ walked[p].is_file
          /\ walked[p].accessed < Now - older_than
    /\ (\A i \in 1..Len(walked) :
            walked[i].is_file => walked[i].accessed >= Now - older_than)
          => Heap = {} /\ Touched = {}
C1_Witness ==
    /\ pc = "done"
    /\ removed # {}
    /\ \E i \in 1..Len(walked) :
          walked[i].is_file /\ walked[i].accessed >= Now - older_than
    /\ SumSizes(final) < n_bytes_to_delete

\* C2: whenever the scan is between two entries (after an admission and
\* its trimming pops, or after a skip) and when it has ended, a non-empty
\* candidate set has total size minus the size of its most recently accessed
\* member (the heap's top) <= requiredBytes.
C2_NearMinimalCover ==
    (pc \in {"walk", "probe2"} /\ files_to_delete # <<>>) =>
        /\ \A f \in Heap : f.accessed <= HeapPeek(files_to_delete).accessed
        /\ SumSizes(Heap) - HeapPeek(files_to_delete).size
               <= target_available_space - current_available_space
C2_Witness ==
    /\ pc = "walk"
    /\ Len(files_to_delete) >= 2
    /\ SumSizes(Heap) > target_available_space - current_available_space
    /\ EligibleWalked \ Heap # {}

\* C3: when the eligible files cover requiredBytes, the scanned set is the
\* oldest-first prefix of the eligible files whose total size is the
\* smallest one that is >= requiredBytes, whatever the enumeration order.
C3_MinimalOldestCover ==
    (pc = "probe2" /\ SumSizes(EligibleWalked) >= max_n_bytes_to_delete) =>
        MinimalOldestCover(Heap, EligibleWalked, max_n_bytes_to_delete)

\* C4: when the eligible files cover requiredBytes the scanned set's total is
\* >= requiredBytes at the end of the scan, and during the scan a total that
\* has reached requiredBytes never falls below it again.
C4_Coverage ==
    /\ [](pc = "probe2" =>
            (SumSizes(EligibleWalked) >= target_available_space - current_available_space
                => SumSizes(Heap) >= target_available_space - current_available_space))
    /\ [][(pc \in {"walk", "trim"}
            /\ SumSizes(Heap) >= target_available_space - current_available_space)
           => SumSizes(Members(files_to_delete'))
                  >= target_available_space - current_available_space]_vars
C4_Witness ==
    /\ pc = "probe2"
    /\ target_available_space - current_available_space >= 2
    /\ SumSizes(Heap) >= target_available_space - current_available_space
    /\ EligibleWalked \ Heap # {}
    /\ Len(files_to_delete) >= 2

\* C5: at the end of the scan, and after the pruning, every eligible file
\* that was walked and is not in the candidate set was accessed no earlier
\* than every member of the set.
C5_LeastRecentlyAccessed ==
    /\ pc = "probe2" =>
          \A e \in EligibleWalked \ Heap : \A m \in Heap : e.accessed >= m.accessed
    /\ pc \in {"drain", "done"} =>
          \A e \in EligibleWalked \ final : \A m \in final : e.accessed >= m.accessed
C5_Witness ==
    /\ pc = "drain"
    /\ final # {}
    /\ final # scanned
    /\ EligibleWalked \ scanned # {}
    /\ \E e \in EligibleWalked \ final : \E m \in final : e.accessed > m.accessed

\* C6: a file is deleted or reported only if the first probe found
\* available < target and the probe after the scan leaves a deficit
\* target - available' > 0; with available >= target at the first probe
\* nothing is scanned, and with no deficit at the second probe the whole
\* set is discarded and the byte total is 0.
C6_NoDeletionWithoutDeficit ==
    /\ Touched # {} =>
          /\ current_available_space < target_available_space
          /\ reprobed # <<>>
          /\ target_available_space - reprobed[1] > 0
    /\ (pc # "start" /\ current_available_space >= target_available_space) =>
          walked = <<>> /\ reprobed = <<>>
    /\ (pc = "done" /\ reprobed # <<>>
            /\ target_available_space - reprobed[1] <= 0) =>
          files_to_delete = <<>> /\ Touched = {} /\ n_bytes_deleted = 0

\* C7: from the end of the scan on no member is added to the candidate set
\* and nothing more is walked, so the pruned set is a subset, by path, of
\* the scanned set, also when the new deficit exceeds what was gathered.
C7_PruneNeverGrows ==
    /\ [](pc \in {"prune", "drain", "done"} =>
            /\ Paths(Heap) \subseteq Paths(scanned)
            /\ Paths(final) \subseteq Paths(scanned))
    /\ [][(pc \in {"probe2", "prune", "drain"}) =>
            (Paths(Members(files_to_delete')) \subseteq Paths(Heap)
                /\ walked' = walked)]_vars
C7_Witness ==
    /\ pc = "drain"
    /\ final # {}
    /\ n_bytes_to_delete > SumSizes(scanned)
    /\ n_bytes_to_delete > max_n_bytes_to_delete
    /\ EligibleWalked \ scanned # {}

\* C8: when the scanned set's total is >= requiredBytes' > 0, the pruned
\* set is the oldest-first prefix of the scanned set whose total size is the
\* smallest one that is >= requiredBytes'.
C8_PrunedMinimalCover ==
    (pc = "drain" /\ n_bytes_to_delete > 0
        /\ SumSizes(scanned) >= n_bytes_to_delete) =>
        MinimalOldestCover(final, scanned, n_bytes_to_delete)

\* C9: a dry run attempts no deletion and removes no file, it reports
\* exactly the members of the final candidate set, and a second dry run over
\* the same walk, probes and age floor reports the same set of paths and the
\* same byte total.
C9_DryRunFrame ==
    /\ dry_run => attempts = <<>> /\ removed = {}
    /\ dry_run /\ pc = "drain" => Range(printed) \cup Paths(Heap) = Paths(final)
    /\ dry_run /\ pc = "done" =>
          /\ Range(printed) = Paths(final)
          /\ Len(printed) = Cardinality(final)
          /\ n_bytes_deleted = SumSizes(final)
    /\ Replaying /\ pc = "done" =>
          /\ Range(printed) = Range(replay[1].printed)
          /\ n_bytes_deleted = replay[1].n_bytes_deleted
C9_Witness ==
    /\ Replaying
    /\ pc = "done"
    /\ Len(printed) >= 2
    /\ EligibleWalked \ final # {}
    /\ n_bytes_deleted > 0

\* C10: in live mode every member of the final candidate set gets exactly
\* one deletion attempt, a failed attempt neither stops the drain nor is
\* repeated, and the set is empty when the drain has ended.
C10_DrainsFully ==
    /\ (~dry_run /\ pc = "drain") =>
          /\ Range(attempts) \cup Paths(Heap) = Paths(final)
          /\ Len(attempts) + Len(files_to_delete) = Cardinality(final)
    /\ (~dry_run /\ pc = "done") =>
          /\ files_to_delete = <<>>
          /\ Range(attempts) = Paths(final)
          /\ Len(attempts) = Cardinality(final)
C10_Witness ==
    /\ ~dry_run
    /\ pc = "done"
    /\ Len(attempts) >= 3
    /\ attempts[1] \notin removed
    /\ attempts[2] \in removed
    /\ attempts[3] \notin removed

\* sizes of the files remove_file has removed
RemovedSizes == SumSizes({FileInfo(p, walked[p].size, walked[p].accessed) : p \in removed})

\* C11: at the end of the run the byte count is, in live mode, the sum of
\* the sizes of the files whose deletion succeeded and, in dry-run mode, the
\* sum of the sizes of the members of the final candidate set, whatever the
\* dry-run and verbose switches are.
C11_BytesFreed ==
    pc = "done" =>
        n_bytes_deleted = IF dry_run THEN SumSizes(final) ELSE RemovedSizes

\* C12: the file pushed for a walked entry is never popped by the trimming
\* loop that follows its own push, and an entry newer than the top of a set
\* whose total has reached requiredBytes is skipped without being pushed.
C12_NoAdmitThenEvict ==
    /\ [][(pc = "trim" /\ Len(files_to_delete') < Len(files_to_delete))
            => (HeapPeek(files_to_delete).path # Len(walked)
                  /\ Len(walked) \in Paths(Members(files_to_delete')))]_vars
    /\ [][(pc = "walk" /\ Len(walked') > Len(walked)
             /\ files_to_delete # <<>>
             /\ SumSizes(Heap) >= target_available_space - current_available_space
             /\ walked'[Len(walked')].accessed > HeapPeek(files_to_delete).accessed)
            => (files_to_delete' = files_to_delete /\ pc' = "walk")]_vars
C12_Witness ==
    /\ pc = "walk"
    /\ Len(walked) >= 2
    /\ walked[1].is_file /\ walked[1].accessed < Now - older_than
    /\ 1 \notin Paths(Heap)
    /\ Len(walked) \in Paths(Heap)

\* access time of the walked file with path p
AccessedOf(p) == walked[p].accessed
\* a sequence of paths in order of non-increasing access time
NewestFirst(s) ==
    \A i \in 1..Len(s) : \A j \in 1..Len(s) :
        i < j => AccessedOf(s[i]) >= AccessedOf(s[j])

\* C13: with a deficit requiredBytes' > 0 at the second probe the pruning
\* loop pops only while the remaining total stays > requiredBytes'; so a
\* scanned total >= requiredBytes' leaves a pruned total >= requiredBytes',
\* and when the loop has ended a non-empty set has total minus the size of
\* its most recently accessed member <= requiredBytes'.
C13_PruneStopsBeforeUndershoot ==
    /\ []((pc = "drain" /\ Heap = final
             /\ target_available_space - reprobed[1] > 0) =>
            /\ n_bytes_to_delete = target_available_space - reprobed[1]
            /\ (SumSizes(scanned) >= target_available_space - reprobed[1]
                  => SumSizes(final) >= target_available_space - reprobed[1])
            /\ (files_to_delete # <<>> =>
                  SumSizes(final) - HeapPeek(files_to_delete).size
                      <= target_available_space - reprobed[1]))
    /\ [][(pc = "prune" /\ Len(files_to_delete') < Len(files_to_delete)
             /\ target_available_space - reprobed[1] > 0)
            => SumSizes(Members(files_to_delete'))
                   > target_available_space - reprobed[1]]_vars
C13_Witness ==
    /\ pc = "drain"
    /\ Heap = final
    /\ final # scanned
    /\ final # {}
    /\ target_available_space - reprobed[1] > 0
    /\ SumSizes(final) > target_available_space - reprobed[1]

\* C14: no deletion is attempted before both probes have returned; the
\* scan and the pruning delete nothing, and a run that ends in a panic (a
\* failed probe among them) has deleted nothing.
C14_ProbesBeforeMutation ==
    /\ (attempts # <<>> \/ removed # {}) =>
          reprobed # <<>> /\ pc \in {"drain", "done"}
    /\ pc \in {"start", "walk", "trim", "probe2", "prune", "panicked"} =>
          attempts = <<>> /\ removed = {}
C14_Witness ==
    /\ pc = "panicked"
    /\ reprobed = <<>>
    /\ Cardinality(scanned) >= 2
    /\ ~dry_run

\* C15: the drain takes the members most recently accessed first: the
\* deletion attempts, and the reports, are in order of non-increasing access
\* time, and they are exactly the members of the final candidate set.
C15_DrainOrder ==
    /\ NewestFirst(attempts)
    /\ NewestFirst(printed)
    /\ \A p \in Range(attempts) :
          \A m \in Heap : AccessedOf(p) >= m.accessed
    /\ (pc = "done" /\ ~dry_run) => Range(attempts) = Paths(final)
    /\ (pc = "done" /\ dry_run) => Range(printed) = Paths(final)
C15_Witness ==
    /\ pc = "done"
    /\ Len(attempts) = 3
    /\ AccessedOf(attempts[1]) > AccessedOf(attempts[2])
    /\ AccessedOf(attempts[2]) > AccessedOf(attempts[3])
    /\ attempts[1] < attempts[2]

\* C16: for every target and every freshly probed available space the
\* deficit the pruning works with is max(0, target - available'): 0 when the
\* space grew past the target, target - available' otherwise, with no
\* wrap-around from the signed conversion.
C16_DeficitClamped ==
    (reprobed # <<>> /\ pc \in {"prune", "drain", "done"}) =>
        (IF n_bytes_to_delete > 0 THEN n_bytes_to_delete ELSE 0)
            = (IF target_available_space > reprobed[1]
               THEN target_available_space - reprobed[1] ELSE 0)

\* C17: whenever the scan looks at the most recently accessed member (the
\* admission test once the total has reached requiredBytes, every test of
\* the trimming loop) the candidate set is non-empty, and the trimming loop
\* leaves at least one member.
C17_NeverPeeksEmpty ==
    /\ (pc = "walk" /\ ~(aggregate_heap_file_size < max_n_bytes_to_delete))
          => files_to_delete # <<>>
    /\ pc = "trim" => files_to_delete # <<>>
    /\ (pc = "walk" /\ walked # <<>>
            /\ walked[Len(walked)].is_file
            /\ walked[Len(walked)].accessed < Now - older_than)
          => files_to_delete # <<>>
C17_Witness ==
    /\ pc = "walk"
    /\ Len(files_to_delete) = 1
    /\ aggregate_heap_file_size > max_n_bytes_to_delete
    /\ Cardinality(EligibleWalked) = 3

\* C18: when the eligible files together are smaller than requiredBytes the
\* scan pushes every one of them and pops none: throughout the scan and at
\* its end the candidate set is exactly the set of eligible files walked.
C18_BestEffort ==
    (pc \in {"walk", "trim", "probe2"}
        /\ SumSizes(EligibleWalked) < target_available_space - current_available_space)
        => Heap = EligibleWalked
C18_Witness ==
    /\ pc = "probe2"
    /\ Cardinality(EligibleWalked) >= 2
    /\ SumSizes(EligibleWalked) < target_available_space - current_available_space
    /\ Heap = EligibleWalked
    /\ \E i \in 1..Len(walked) :
          walked[i].is_file /\ walked[i].accessed >= Now - older_than

C20_SizeBookkeeping ==
    /\ pc \in {"walk", "trim", "probe2", "prune"} =>
          aggregate_heap_file_size = SumSizes(Heap)
    /\ (pc \in {"trim", "prune"} /\ files_to_delete # <<>>) =>
          HeapPeek(files_to_delete).size <= aggregate_heap_file_size
    /\ pc \in {"walk", "trim", "probe2", "prune", "drain"} =>
          /\ current_available_space < target_available_space
          /\ max_n_bytes_to_delete = target_available_space - current_available_space
C20_Witness ==
    /\ pc = "prune"
    /\ Heap # scanned
    /\ Heap # {}
    /\ EligibleWalked \ scanned # {}
    /\ aggregate_heap_file_size > 0

====
